---- MODULE Spec2Model ----
(***************************************************************************)
(* Model of the vocabulary backend in src/app.py: the save_vocabulary      *)
(* handler with its free-tier admission rule, the spaced-repetition        *)
(* update_vocabulary_review handler, and the subscription handlers, over   *)
(* the two tables user_vocabulary and subscriptions.                       *)
(*                                                                         *)
(* Every handler is a sequence of steps, one per SQL statement, run by a   *)
(* request handler process.  In the sequential specifications one request  *)
(* is in flight at a time; in SpecConc the steps of different requests     *)
(* interleave under READ COMMITTED visibility (a write is seen by other    *)
(* transactions only after its commit).                                    *)
(*                                                                         *)
(* Numbers: easiness_factor is held in tenths (25 is 2.5), timestamps in   *)
(* whole days.                                                             *)
(***************************************************************************)
EXTENDS Integers, Sequences, FiniteSets, TLC

----------------------------------------------------------------------------
(* Bounds of the model *)

\* request handler processes that may run concurrently
NProcs == 2
\* the clock runs from day 0 to day MaxTime
MaxTime == 1
\* save requests begun in one behaviour
MaxSaves == 2
\* review requests begun in one behaviour
MaxReviews == 4

(* Program constants *)

\* SQL NULL / Python None in a numeric column or an optional field
Null == -1
\* "Free tier limited to 5 words": vocab_count >= 5
FREE_LIMIT == 5
\* easiness used when the column is unset: "else 2.5", in tenths
DEFAULT_EASINESS == 25
\* max(1.3, ...), in tenths
MIN_EASINESS == 13
\* easiness + 0.1, in tenths
EASINESS_UP == 1
\* easiness - 0.2, in tenths
EASINESS_DOWN == 2
\* timedelta(days=30) of a monthly subscription
MONTHLY_DAYS == 30

Procs == 1..NProcs
Users == {1, 2}
Translations == {"t1", "t2"}

Key(w, b, pg, pos) ==
    [word |-> w, book_id |-> b, page_number |-> pg, word_position |-> pos]

\* the words a request may name: the first word, and the two words at the
\* free-tier boundary
Words == {1, FREE_LIMIT, FREE_LIMIT + 1}

\* the word keys a request may name: each word at one place, and two more
\* places of word 1, in another book and at another position.  Every request
\* carries all four components: what a NULL component does to the conflict
\* target depends on the table definition, which src/app.py does not hold.
Keys ==
    {Key(w, 1, 1, 1) : w \in Words} \cup {Key(1, 2, 1, 1), Key(1, 1, 1, 2)}

----------------------------------------------------------------------------
(* State *)

VARIABLES
    user_vocabulary,  \* committed rows of table user_vocabulary
    subscriptions,    \* committed rows of table subscriptions
    next_id,          \* the serial sequence of user_vocabulary.id
    now,              \* the wall clock, in days
    pc,               \* pc[p]: the statement handler p is at
    req,              \* req[p]: the request handler p is serving
    loc,              \* loc[p]: the handler's local variables
    pending,          \* pending[p]: the uncommitted write of p's transaction
    resp,             \* resp[p]: the response p returned
    pre,              \* pre[p]: user_vocabulary when p's request began
    saves,            \* save requests begun so far
    reviews,          \* review requests begun so far
    history,          \* the committed reviews, in order: id, outcome, interval
    initial           \* user_vocabulary when the server started

vars == <<user_vocabulary, subscriptions, next_id, now, pc, req, loc,
          pending, resp, pre, saves, reviews, history, initial>>

\* the record of what happened, which no handler reads
ghost == <<history, initial>>

----------------------------------------------------------------------------
(* The SQL statements and the scheduling arithmetic, as operators *)

RECURSIVE Pow(_, _)
Pow(b, n) == IF n = 0 THEN 1 ELSE b * Pow(b, n - 1)

Max(a, b) == IF a >= b THEN a ELSE b

\* SELECT COUNT(*) FROM subscriptions WHERE user_id = u AND status = 'active'
SubCount(subs, u) ==
    Cardinality({s \in subs : s.user_id = u /\ s.status = "active"})

\* mutant: an off-by-one in the comparison of the subscription count
HasSubscriptionOffByOne(subs, u) == SubCount(subs, u) > 1

\* has_subscription = sub_result['sub_count'] > 0
HasSubscription(subs, u) == SubCount(subs, u) > 0

\* mutant: the count without its WHERE clause
VocabCountAllUsers(rows, u) == Cardinality(rows)

\* SELECT COUNT(*) FROM user_vocabulary WHERE user_id = u
VocabCount(rows, u) == Cardinality({r \in rows : r.user_id = u})

\* SELECT id FROM user_vocabulary WHERE user_id = u AND word = .. AND
\* book_id = .. AND page_number = .. AND word_position = ..
ExistingRows(rows, u, k) ==
    {r \in rows : /\ r.user_id = u
                  /\ r.word = k.word
                  /\ r.book_id = k.book_id
                  /\ r.page_number = k.page_number
                  /\ r.word_position = k.word_position}

\* mutant: the limit compared with > instead of >=
BlockedAboveLimit(vocab_count, existing) ==
    vocab_count > FREE_LIMIT /\ ~existing

\* if vocab_count >= 5 and not existing
Blocked(vocab_count, existing) == vocab_count >= FREE_LIMIT /\ ~existing

\* the columns INSERT does not name take the defaults of the table: the
\* next id, the time of the transaction, easiness 2.5, no review yet
ColumnDefaults(id, t) ==
    [id |-> id, learned_at |-> t,
     easiness_factor |-> DEFAULT_EASINESS, next_review_date |-> t,
     review_count |-> 0, correct_count |-> 0, incorrect_count |-> 0]

\* INSERT INTO user_vocabulary (user_id, word, translation, book_id,
\* page_number, volume_number, word_position) VALUES (...)
NewRow(id, u, k, translation, volume, t) ==
    [user_id |-> u, word |-> k.word, translation |-> translation,
     book_id |-> k.book_id, page_number |-> k.page_number,
     volume_number |-> volume, word_position |-> k.word_position]
        @@ ColumnDefaults(id, t)

\* mutant: the conflict clause refreshes learned_at only
ConflictUpdateKeepsTranslation(r, translation, t) ==
    [r EXCEPT !.learned_at = t]

\* mutant: the conflicting row is replaced by the row INSERT would write
ConflictUpdateResetsStatistics(r, translation, t) ==
    [r EXCEPT !.translation = translation, !.learned_at = t,
              !.easiness_factor = DEFAULT_EASINESS, !.next_review_date = t,
              !.review_count = 0, !.correct_count = 0, !.incorrect_count = 0]

\* ON CONFLICT ... DO UPDATE SET translation = EXCLUDED.translation,
\*                               learned_at = CURRENT_TIMESTAMP
ConflictUpdate(r, translation, t) ==
    [r EXCEPT !.translation = translation, !.learned_at = t]

\* vocab['x'] or 0
OrZero(x) == IF x = Null \/ x = 0 THEN 0 ELSE x

\* float(vocab['easiness_factor']) if vocab['easiness_factor'] else 2.5
ReadEasiness(x) == IF x = Null \/ x = 0 THEN DEFAULT_EASINESS ELSE x

\* easiness = max(1.3, easiness + 0.1)
EasinessCorrect(e) == Max(MIN_EASINESS, e + EASINESS_UP)

\* mutant: the decrease without its floor
EasinessIncorrectNoFloor(e) == e - EASINESS_DOWN

\* easiness = max(1.3, easiness - 0.2)
EasinessIncorrect(e) == Max(MIN_EASINESS, e - EASINESS_DOWN)

\* mutant: the ladder read with the review_count already incremented
IntervalDaysPostIncrement(e, rc) ==
    IF rc + 1 = 1 THEN 1
    ELSE IF rc + 1 = 2 THEN 3
    ELSE IF rc + 1 = 3 THEN 7
    ELSE (7 * Pow(e, rc - 1)) \div Pow(10, rc - 1)

\* the interval ladder of a correct answer; e is the easiness already
\* increased, rc the review_count before its increment.
\* int(7 * (easiness ** (review_count - 2))) with easiness in tenths
IntervalDays(e, rc) ==
    IF rc = 0 THEN 1
    ELSE IF rc = 1 THEN 3
    ELSE IF rc = 2 THEN 7
    ELSE (7 * Pow(e, rc - 2)) \div Pow(10, rc - 2)

\* mutant: a wrong answer keeps the streak
ScheduleKeepsStreak(v, correct) ==
    LET easiness == ReadEasiness(v.easiness_factor)
        review_count == OrZero(v.review_count)
        correct_count == OrZero(v.correct_count)
        incorrect_count == OrZero(v.incorrect_count)
    IN  IF correct
        THEN [easiness_factor |-> EasinessCorrect(easiness),
              interval_days |-> IntervalDays(EasinessCorrect(easiness),
                                             review_count),
              review_count |-> review_count + 1,
              correct_count |-> correct_count + 1,
              incorrect_count |-> incorrect_count]
        ELSE [easiness_factor |-> EasinessIncorrect(easiness),
              interval_days |-> 1,
              review_count |-> review_count,
              correct_count |-> correct_count,
              incorrect_count |-> incorrect_count + 1]

\* mutant: the interval computed from the easiness before its increase
ScheduleOldEasiness(v, correct) ==
    LET easiness == ReadEasiness(v.easiness_factor)
        review_count == OrZero(v.review_count)
        correct_count == OrZero(v.correct_count)
        incorrect_count == OrZero(v.incorrect_count)
    IN  IF correct
        THEN [easiness_factor |-> EasinessCorrect(easiness),
              interval_days |-> IntervalDays(easiness, review_count),
              review_count |-> review_count + 1,
              correct_count |-> correct_count + 1,
              incorrect_count |-> incorrect_count]
        ELSE [easiness_factor |-> EasinessIncorrect(easiness),
              interval_days |-> 1,
              review_count |-> 0,
              correct_count |-> correct_count,
              incorrect_count |-> incorrect_count + 1]

\* mutant: a wrong answer resets the count of right answers with the streak
ScheduleResetsCorrect(v, correct) ==
    LET easiness == ReadEasiness(v.easiness_factor)
        review_count == OrZero(v.review_count)
        correct_count == OrZero(v.correct_count)
        incorrect_count == OrZero(v.incorrect_count)
    IN  IF correct
        THEN [easiness_factor |-> EasinessCorrect(easiness),
              interval_days |-> IntervalDays(EasinessCorrect(easiness),
                                             review_count),
              review_count |-> review_count + 1,
              correct_count |-> correct_count + 1,
              incorrect_count |-> incorrect_count]
        ELSE [easiness_factor |-> EasinessIncorrect(easiness),
              interval_days |-> 1,
              review_count |-> 0,
              correct_count |-> 0,
              incorrect_count |-> incorrect_count + 1]

\* the spaced repetition algorithm: the new statistics and the interval
\* computed from the row that was read
Schedule(v, correct) ==
    LET easiness == ReadEasiness(v.easiness_factor)
        review_count == OrZero(v.review_count)
        correct_count == OrZero(v.correct_count)
        incorrect_count == OrZero(v.incorrect_count)
    IN  IF correct
        THEN [easiness_factor |-> EasinessCorrect(easiness),
              interval_days |-> IntervalDays(EasinessCorrect(easiness),
                                             review_count),
              review_count |-> review_count + 1,
              correct_count |-> correct_count + 1,
              incorrect_count |-> incorrect_count]
        ELSE [easiness_factor |-> EasinessIncorrect(easiness),
              interval_days |-> 1,
              review_count |-> 0,
              correct_count |-> correct_count,
              incorrect_count |-> incorrect_count + 1]

\* UPDATE user_vocabulary SET easiness_factor, next_review_date,
\* review_count, correct_count, incorrect_count WHERE id = ..
ReviewUpdate(r, s, next_review) ==
    [r EXCEPT !.easiness_factor = s.easiness_factor,
              !.next_review_date = next_review,
              !.review_count = s.review_count,
              !.correct_count = s.correct_count,
              !.incorrect_count = s.incorrect_count]

\* status = 'active' OR (status = 'cancelled' AND expires_at > NOW())
Qualifies(s, t) ==
    s.status = "active" \/ (s.status = "cancelled" /\ s.expires_at > t)

\* get_subscription_status: is_premium
IsPremium(subs, u, t) == \E s \in subs : s.user_id = u /\ Qualifies(s, t)

\* SELECT COUNT(DISTINCT word) FROM user_vocabulary WHERE user_id = u
DistinctWords(rows, u) == Cardinality({r.word : r \in {x \in rows : x.user_id = u}})

----------------------------------------------------------------------------
(* Values of the handlers' variables *)

NoKey == Key(Null, Null, Null, Null)

NoReq ==
    [kind |-> "none", user_id |-> Null, key |-> NoKey, translation |-> "",
     volume_number |-> Null, vocab_id |-> Null, correct |-> FALSE]

NoStats ==
    [easiness_factor |-> Null, review_count |-> Null,
     correct_count |-> Null, incorrect_count |-> Null]

NoLoc ==
    [tx_start |-> Null, has_subscription |-> FALSE, vocab_count |-> Null,
     existing |-> FALSE, vocab |-> NoStats, interval_days |-> Null,
     next_review |-> Null]

NoResp ==
    [status |-> 0, error |-> "", vocab_count |-> Null, vocabulary |-> {},
     interval_days |-> Null, next_review_date |-> Null, is_premium |-> FALSE,
     due |-> <<>>]

\* jsonify({'success': False, 'error': ...}), code
ErrorResp(code, error) == [NoResp EXCEPT !.status = code, !.error = error]

\* POST /api/vocabulary bodies: word, place, translation and volume
SaveReq(u, k, tr, vol) ==
    [kind |-> "save", user_id |-> u, key |-> k, translation |-> tr,
     volume_number |-> vol, vocab_id |-> Null, correct |-> FALSE]

\* PUT /api/vocabulary/<vocab_id>/review bodies
ReviewReq(id, correct) ==
    [kind |-> "review", user_id |-> Null, key |-> NoKey, translation |-> "",
     volume_number |-> Null, vocab_id |-> id, correct |-> correct]

\* GET /api/subscription/status/<user_id>
StatusReq(u) ==
    [kind |-> "status", user_id |-> u, key |-> NoKey, translation |-> "",
     volume_number |-> Null, vocab_id |-> Null, correct |-> FALSE]

\* bodies that lack the user, the word or the translation
InvalidSaves ==
    {SaveReq(Null, Key(1, 1, 1, 1), "t1", 1),
     SaveReq(1, Key(Null, 1, 1, 1), "t1", 1),
     SaveReq(1, Key(1, 1, 1, 1), "", 1)}

\* the bodies user 1 sends: every key with every translation in volume 1,
\* and word 1 once more in volume 2
ValidSaves ==
    {SaveReq(1, k, tr, 1) : k \in Keys, tr \in Translations}
        \cup {SaveReq(1, Key(1, 1, 1, 1), "t2", 2)}

\* the rows of user u at the first n words, as n saves at day 0 leave them
FreshRows(u, n, first_id) ==
    {NewRow(first_id + w - 1, u, Key(w, 1, 1, 1), "t1", 1, 0) : w \in 1..n}

\* a row whose review statistics were never set
UnsetRow(id, u, k) ==
    [NewRow(id, u, k, "t1", 1, 0) EXCEPT
        !.easiness_factor = Null, !.review_count = Null,
        !.correct_count = Null, !.incorrect_count = Null]

Sub(u, status, expires_at) ==
    [user_id |-> u, status |-> status, expires_at |-> expires_at]

AllIdle == \A p \in Procs : pc[p] = "idle"

\* the rows another transaction has written and not yet committed lock
\* their id and their unique key
LockedBy(q, u, k, id) ==
    \E w \in pending[q] :
        \/ w.id = id
        \/ ExistingRows({w}, u, k) # {}

----------------------------------------------------------------------------
(* save_vocabulary *)

\* mutant: the body is not tested for its required fields
BeginSaveNoCheck(p, r) ==
    /\ pc[p] = "idle"
    /\ saves < MaxSaves
    /\ saves' = saves + 1
    /\ req' = [req EXCEPT ![p] = r]
    /\ pre' = [pre EXCEPT ![p] = user_vocabulary]
    /\ pc' = [pc EXCEPT ![p] = "sv_connect"]
    /\ UNCHANGED <<user_vocabulary, subscriptions, next_id, now, loc,
                   pending, resp, reviews, ghost>>

\* request.get_json() and the required-field check
BeginSave(p, r) ==
    /\ pc[p] = "idle"
    /\ saves < MaxSaves
    /\ saves' = saves + 1
    /\ req' = [req EXCEPT ![p] = r]
    /\ pre' = [pre EXCEPT ![p] = user_vocabulary]
    /\ IF r.user_id = Null \/ r.key.word = Null \/ r.translation = ""
       THEN /\ pc' = [pc EXCEPT ![p] = "done"]
            /\ resp' = [resp EXCEPT
                          ![p] = ErrorResp(400, "Missing required fields")]
       ELSE /\ pc' = [pc EXCEPT ![p] = "sv_connect"]
            /\ resp' = resp
    /\ UNCHANGED <<user_vocabulary, subscriptions, next_id, now, loc,
                   pending, reviews, ghost>>

\* conn = get_db_connection(): a connection, or None
Connect(p, from, to) ==
    /\ pc[p] = from
    /\ \/ /\ pc' = [pc EXCEPT ![p] = to]
          /\ resp' = resp
       \/ /\ pc' = [pc EXCEPT ![p] = "done"]
          /\ resp' = [resp EXCEPT
                        ![p] = ErrorResp(500, "Database connection failed")]
    /\ UNCHANGED <<user_vocabulary, subscriptions, next_id, now, req, loc,
                   pending, pre, saves, reviews, ghost>>

SaveConnect(p) == Connect(p, "sv_connect", "sv_sub")

\* the first statement opens the transaction: the subscription check
SaveSubCheck(p) ==
    /\ pc[p] = "sv_sub"
    /\ LET has == HasSubscription(subscriptions, req[p].user_id)
       IN  /\ loc' = [loc EXCEPT ![p].tx_start = now,
                                 ![p].has_subscription = has]
           /\ pc' = [pc EXCEPT ![p] = IF has THEN "sv_upsert" ELSE "sv_count"]
    /\ UNCHANGED <<user_vocabulary, subscriptions, next_id, now, req,
                   pending, resp, pre, saves, reviews, ghost>>

\* the vocabulary count of a user without subscription
SaveCount(p) ==
    /\ pc[p] = "sv_count"
    /\ loc' = [loc EXCEPT
                 ![p].vocab_count = VocabCount(user_vocabulary, req[p].user_id)]
    /\ pc' = [pc EXCEPT ![p] = "sv_exists"]
    /\ UNCHANGED <<user_vocabulary, subscriptions, next_id, now, req,
                   pending, resp, pre, saves, reviews, ghost>>

\* the existence query and the decision to block
SaveExists(p) ==
    /\ pc[p] = "sv_exists"
    /\ LET existing ==
               ExistingRows(user_vocabulary, req[p].user_id, req[p].key) # {}
       IN  /\ loc' = [loc EXCEPT ![p].existing = existing]
           /\ IF Blocked(loc[p].vocab_count, existing)
              THEN /\ pc' = [pc EXCEPT ![p] = "done"]
                   /\ resp' = [resp EXCEPT ![p] =
                         [ErrorResp(403, "FREE_LIMIT_REACHED") EXCEPT
                             !.vocab_count = loc[p].vocab_count]]
              ELSE /\ pc' = [pc EXCEPT ![p] = "sv_upsert"]
                   /\ resp' = resp
    /\ UNCHANGED <<user_vocabulary, subscriptions, next_id, now, req,
                   pending, pre, saves, reviews, ghost>>

\* mutant: a plain INSERT, without the conflict clause
UpsertAlwaysInserts(rows, id, r, t) ==
    {NewRow(id, r.user_id, r.key, r.translation, r.volume_number, t)}

\* the rows INSERT ... ON CONFLICT DO UPDATE writes: the conflicting row
\* updated, or a new row
Upsert(rows, id, r, t) ==
    LET hit == ExistingRows(rows, r.user_id, r.key)
    IN  IF hit # {}
        THEN {ConflictUpdate(x, r.translation, t) : x \in hit}
        ELSE {NewRow(id, r.user_id, r.key, r.translation,
                     r.volume_number, t)}

\* INSERT ... ON CONFLICT: waits while another transaction holds the key
SaveUpsert(p) ==
    /\ pc[p] = "sv_upsert"
    /\ LET w == Upsert(user_vocabulary, next_id, req[p], loc[p].tx_start)
       IN  /\ \A q \in Procs \ {p}, x \in w :
                  ~LockedBy(q, req[p].user_id, req[p].key, x.id)
           /\ pending' = [pending EXCEPT ![p] = w]
           /\ next_id' = IF \E x \in w : x.id = next_id
                         THEN next_id + 1 ELSE next_id
    /\ pc' = [pc EXCEPT ![p] = "sv_commit"]
    /\ UNCHANGED <<user_vocabulary, subscriptions, now, req, loc, resp,
                   pre, saves, reviews, ghost>>

\* the table after a transaction's writes are committed
Committed(rows, w) ==
    {r \in rows : \A x \in w : x.id # r.id} \cup w

\* conn.commit() and the success response
SaveCommit(p) ==
    /\ pc[p] = "sv_commit"
    /\ user_vocabulary' = Committed(user_vocabulary, pending[p])
    /\ resp' = [resp EXCEPT ![p] =
                  [NoResp EXCEPT !.status = 200, !.vocabulary = pending[p]]]
    /\ pending' = [pending EXCEPT ![p] = {}]
    /\ pc' = [pc EXCEPT ![p] = "done"]
    /\ UNCHANGED <<subscriptions, next_id, now, req, loc, pre, saves,
                   reviews, ghost>>

\* the statements of the handlers, at which the store may raise
DbSteps ==
    {"sv_sub", "sv_count", "sv_exists", "sv_upsert", "sv_commit",
     "rv_select", "rv_update", "rv_commit", "du_select"}

\* mutant: the write of the failed transaction is kept
QueryFailsKeepsWrite(p) ==
    /\ pc[p] \in DbSteps
    /\ user_vocabulary' = Committed(user_vocabulary, pending[p])
    /\ pending' = [pending EXCEPT ![p] = {}]
    /\ resp' = [resp EXCEPT ![p] = ErrorResp(500, "exception")]
    /\ pc' = [pc EXCEPT ![p] = "done"]
    /\ UNCHANGED <<subscriptions, next_id, now, req, loc, pre, saves,
                   reviews, ghost>>

\* except Exception: the transaction is never committed
QueryFails(p) ==
    /\ pc[p] \in DbSteps
    /\ pending' = [pending EXCEPT ![p] = {}]
    /\ resp' = [resp EXCEPT ![p] = ErrorResp(500, "exception")]
    /\ pc' = [pc EXCEPT ![p] = "done"]
    /\ UNCHANGED <<user_vocabulary, subscriptions, next_id, now, req, loc,
                   pre, saves, reviews, ghost>>

\* the response is sent and the handler serves the next request
Finish(p) ==
    /\ pc[p] = "done"
    /\ pc' = [pc EXCEPT ![p] = "idle"]
    /\ req' = [req EXCEPT ![p] = NoReq]
    /\ loc' = [loc EXCEPT ![p] = NoLoc]
    /\ resp' = [resp EXCEPT ![p] = NoResp]
    /\ pre' = [pre EXCEPT ![p] = {}]
    /\ UNCHANGED <<user_vocabulary, subscriptions, next_id, now, pending,
                   saves, reviews, ghost>>

\* time passes
Tick ==
    /\ now < MaxTime
    /\ now' = now + 1
    /\ UNCHANGED <<user_vocabulary, subscriptions, next_id, pc, req, loc,
                   pending, resp, pre, saves, reviews, ghost>>

----------------------------------------------------------------------------
(* update_vocabulary_review *)

\* request.get_json(): vocab_id from the path, correct from the body
BeginReview(p, id, correct) ==
    /\ pc[p] = "idle"
    /\ reviews < MaxReviews
    /\ reviews' = reviews + 1
    /\ req' = [req EXCEPT ![p] = ReviewReq(id, correct)]
    /\ pre' = [pre EXCEPT ![p] = user_vocabulary]
    /\ pc' = [pc EXCEPT ![p] = "rv_connect"]
    /\ UNCHANGED <<user_vocabulary, subscriptions, next_id, now, loc,
                   pending, resp, saves, ghost>>

ReviewConnect(p) == Connect(p, "rv_connect", "rv_select")

\* the statistics SELECT reads of a row
StatsOf(r) ==
    [easiness_factor |-> r.easiness_factor, review_count |-> r.review_count,
     correct_count |-> r.correct_count, incorrect_count |-> r.incorrect_count]

\* mutant: the SELECT without the test of its result; a missing row reads
\* as unset statistics
ReviewSelectNoCheck(p) ==
    /\ pc[p] = "rv_select"
    /\ LET hit == {r \in user_vocabulary : r.id = req[p].vocab_id}
       IN  loc' = [loc EXCEPT
                     ![p].tx_start = now,
                     ![p].vocab = IF hit = {} THEN NoStats
                                  ELSE StatsOf(CHOOSE r \in hit : TRUE)]
    /\ pc' = [pc EXCEPT ![p] = "rv_update"]
    /\ UNCHANGED <<user_vocabulary, subscriptions, next_id, now, req,
                   pending, resp, pre, saves, reviews, ghost>>

\* SELECT ... FROM user_vocabulary WHERE id = vocab_id, and the 404
ReviewSelect(p) ==
    /\ pc[p] = "rv_select"
    /\ LET hit == {r \in user_vocabulary : r.id = req[p].vocab_id}
       IN  IF hit = {}
           THEN /\ pc' = [pc EXCEPT ![p] = "done"]
                /\ resp' = [resp EXCEPT
                              ![p] = ErrorResp(404, "Vocabulary item not found")]
                /\ loc' = [loc EXCEPT ![p].tx_start = now]
           ELSE /\ pc' = [pc EXCEPT ![p] = "rv_update"]
                /\ resp' = resp
                /\ loc' = [loc EXCEPT
                             ![p].tx_start = now,
                             ![p].vocab = StatsOf(CHOOSE r \in hit : TRUE)]
    /\ UNCHANGED <<user_vocabulary, subscriptions, next_id, now, req,
                   pending, pre, saves, reviews, ghost>>

\* next_review = datetime.now() + timedelta(days=interval_days)
NextReview(t, interval_days) == t + interval_days

\* the algorithm on the statistics that were read, and the UPDATE; the
\* UPDATE waits while another transaction holds the row
ReviewWrite(p) ==
    /\ pc[p] = "rv_update"
    /\ \A q \in Procs \ {p} : ~LockedBy(q, Null, NoKey, req[p].vocab_id)
    /\ LET s == Schedule(loc[p].vocab, req[p].correct)
           next_review == NextReview(now, s.interval_days)
       IN  /\ pending' = [pending EXCEPT ![p] =
                 {ReviewUpdate(r, s, next_review) :
                     r \in {x \in user_vocabulary : x.id = req[p].vocab_id}}]
           /\ loc' = [loc EXCEPT ![p].interval_days = s.interval_days,
                                 ![p].next_review = next_review]
    /\ pc' = [pc EXCEPT ![p] = "rv_commit"]
    /\ UNCHANGED <<user_vocabulary, subscriptions, next_id, now, req, resp,
                   pre, saves, reviews, ghost>>

\* conn.commit() and the success response
ReviewCommit(p) ==
    /\ pc[p] = "rv_commit"
    /\ user_vocabulary' = Committed(user_vocabulary, pending[p])
    /\ resp' = [resp EXCEPT ![p] =
                  [NoResp EXCEPT !.status = 200,
                                 !.interval_days = loc[p].interval_days,
                                 !.next_review_date = loc[p].next_review]]
    /\ pending' = [pending EXCEPT ![p] = {}]
    /\ pc' = [pc EXCEPT ![p] = "done"]
    /\ history' = Append(history, [id |-> req[p].vocab_id,
                                   correct |-> req[p].correct,
                                   interval_days |-> loc[p].interval_days])
    /\ UNCHANGED <<subscriptions, next_id, now, req, loc, pre, saves,
                   reviews, initial>>

----------------------------------------------------------------------------
(* get_due_vocabulary *)

\* GET /api/vocabulary/due/<user_id>?book_id=..: book is Null when the
\* query string has no book_id
DueReq(u, book) ==
    [kind |-> "due", user_id |-> u, key |-> Key(Null, book, Null, Null),
     translation |-> "", volume_number |-> Null, vocab_id |-> Null,
     correct |-> FALSE]

\* if book_id: query += " AND book_id = %s"
BookFiltered(book) == book # Null /\ book # 0

\* WHERE user_id = u AND next_review_date <= NOW() [AND book_id = book];
\* a NULL next_review_date is not <= NOW()
DueRows(rows, u, book, t) ==
    {r \in rows : /\ r.user_id = u
                  /\ r.next_review_date # Null
                  /\ r.next_review_date <= t
                  /\ BookFiltered(book) => r.book_id = book}

\* ORDER BY next_review_date ASC: the orders of the rows the clause allows,
\* rows of one date in any order
OrderByNextReview(S) ==
    {f \in [1..Cardinality(S) -> S] :
        /\ \A i, j \in 1..Cardinality(S) : i # j => f[i] # f[j]
        /\ \A i, j \in 1..Cardinality(S) :
              i < j => f[i].next_review_date <= f[j].next_review_date}

BeginDue(p, u, book) ==
    /\ pc[p] = "idle"
    /\ req' = [req EXCEPT ![p] = DueReq(u, book)]
    /\ pre' = [pre EXCEPT ![p] = user_vocabulary]
    /\ pc' = [pc EXCEPT ![p] = "du_connect"]
    /\ UNCHANGED <<user_vocabulary, subscriptions, next_id, now, loc,
                   pending, resp, saves, reviews, ghost>>

DueConnect(p) == Connect(p, "du_connect", "du_select")

\* cursor.execute(query, params); due_words = cursor.fetchall()
DueSelect(p) ==
    /\ pc[p] = "du_select"
    /\ loc' = [loc EXCEPT ![p].tx_start = now]
    /\ \E f \in OrderByNextReview(
                DueRows(user_vocabulary, req[p].user_id,
                        req[p].key.book_id, now)) :
          resp' = [resp EXCEPT ![p] =
                      [NoResp EXCEPT !.status = 200, !.due = f]]
    /\ pc' = [pc EXCEPT ![p] = "done"]
    /\ UNCHANGED <<user_vocabulary, subscriptions, next_id, now, req,
                   pending, pre, saves, reviews, ghost>>

----------------------------------------------------------------------------
(* The subscription handlers *)

\* get_subscription_status: is_premium, and the distinct-word count of a
\* free user
SubscriptionStatus(p, u) ==
    /\ pc[p] = "idle"
    /\ req' = [req EXCEPT ![p] = StatusReq(u)]
    /\ pre' = [pre EXCEPT ![p] = user_vocabulary]
    /\ resp' = [resp EXCEPT ![p] =
          IF IsPremium(subscriptions, u, now)
          THEN [NoResp EXCEPT !.status = 200, !.is_premium = TRUE]
          ELSE [NoResp EXCEPT !.status = 200, !.is_premium = FALSE,
                   !.vocab_count = DistinctWords(user_vocabulary, u)]]
    /\ pc' = [pc EXCEPT ![p] = "done"]
    /\ UNCHANGED <<user_vocabulary, subscriptions, next_id, now, loc,
                   pending, saves, reviews, ghost>>

\* create_subscription: the user's row set active again, or a new row
CreateSubscription(u, days) ==
    /\ subscriptions' =
          {s \in subscriptions : s.user_id # u}
              \cup {Sub(u, "active", now + days)}
    /\ UNCHANGED <<user_vocabulary, next_id, now, pc, req, loc, pending,
                   resp, pre, saves, reviews, ghost>>

\* cancel_subscription: UPDATE ... SET status = 'cancelled'
\* WHERE user_id = u AND status = 'active'
CancelSubscription(u) ==
    /\ \E s \in subscriptions : s.user_id = u /\ s.status = "active"
    /\ subscriptions' =
          {IF s.user_id = u /\ s.status = "active"
           THEN [s EXCEPT !.status = "cancelled"] ELSE s : s \in subscriptions}
    /\ UNCHANGED <<user_vocabulary, next_id, now, pc, req, loc, pending,
                   resp, pre, saves, reviews, ghost>>

----------------------------------------------------------------------------
(* Initial states *)

InitHandlers ==
    /\ now = 0
    /\ pc = [p \in Procs |-> "idle"]
    /\ req = [p \in Procs |-> NoReq]
    /\ loc = [p \in Procs |-> NoLoc]
    /\ pending = [p \in Procs |-> {}]
    /\ resp = [p \in Procs |-> NoResp]
    /\ pre = [p \in Procs |-> {}]
    /\ saves = 0
    /\ reviews = 0
    /\ history = <<>>

\* the subscription rows user 1 may hold when the server starts: none, an
\* active one, a cancelled one that has not expired, a cancelled one that has
InitSubs1 ==
    {{}, {Sub(1, "active", MONTHLY_DAYS)},
     {Sub(1, "cancelled", MONTHLY_DAYS)}, {Sub(1, "cancelled", 0)}}

\* the rows of the other user, a subscriber who holds every word a request
\* may name
OtherRows(first_id) == FreshRows(2, FREE_LIMIT + 1, first_id)

\* user 1 holds one word less than the free limit, or the free limit
Init ==
    /\ InitHandlers
    /\ \E n \in {FREE_LIMIT - 1, FREE_LIMIT} :
          /\ user_vocabulary = FreshRows(1, n, 1) \cup OtherRows(n + 1)
          /\ next_id = n + FREE_LIMIT + 2
    /\ \E s \in InitSubs1 :
          subscriptions = s \cup {Sub(2, "active", MONTHLY_DAYS)}
    /\ initial = user_vocabulary

\* one request at a time: save requests, subscription changes, the clock
Next ==
    \/ \E r \in ValidSaves \cup InvalidSaves : AllIdle /\ BeginSave(1, r)
    \/ SaveConnect(1)
    \/ SaveSubCheck(1)
    \/ SaveCount(1)
    \/ SaveExists(1)
    \/ SaveUpsert(1)
    \/ SaveCommit(1)
    \/ QueryFails(1)
    \/ Finish(1)
    \/ AllIdle /\ SubscriptionStatus(1, 1)
    \/ AllIdle /\ CreateSubscription(1, MONTHLY_DAYS)
    \/ AllIdle /\ CancelSubscription(1)
    \/ Tick

Spec == Init /\ [][Next]_vars

----------------------------------------------------------------------------
(* The review scheduler, one request at a time *)

\* row r after the review outcomes of sequence cs, each reviewed at day 0
RECURSIVE Reviewed(_, _)
Reviewed(r, cs) ==
    IF cs = <<>> THEN r
    ELSE LET s == Schedule(StatsOf(r), Head(cs))
         IN  Reviewed(ReviewUpdate(r, s, NextReview(0, s.interval_days)),
                      Tail(cs))

\* the item under review as the server may find it: just saved, saved
\* before the statistics columns were set, after five wrong answers, after
\* three right answers
ReviewItems ==
    LET fresh == NewRow(1, 1, Key(1, 1, 1, 1), "t1", 1, 0)
    IN  {fresh,
         UnsetRow(1, 1, Key(1, 1, 1, 1)),
         Reviewed(fresh, <<FALSE, FALSE, FALSE, FALSE, FALSE>>),
         Reviewed(fresh, <<TRUE, TRUE, TRUE>>)}

\* user 1 holds the item under review and one more, just saved
InitReview ==
    /\ InitHandlers
    /\ \E r \in ReviewItems :
          user_vocabulary = {r, NewRow(2, 1, Key(FREE_LIMIT, 1, 1, 1), "t1", 1, 0)}
    /\ next_id = 3
    /\ subscriptions = {}
    /\ initial = user_vocabulary

\* the ids a review request may name: the two rows, and no row
ReviewIds == {1, 2, 3}

NextReviewStep ==
    \/ \E id \in ReviewIds, c \in BOOLEAN : AllIdle /\ BeginReview(1, id, c)
    \/ ReviewConnect(1)
    \/ ReviewSelect(1)
    \/ ReviewWrite(1)
    \/ ReviewCommit(1)
    \/ QueryFails(1)
    \/ Finish(1)
    \/ Tick

SpecReview == InitReview /\ [][NextReviewStep]_vars

----------------------------------------------------------------------------
(* Save requests at words that have been reviewed *)

\* the review outcomes a word of user 1 has had, all at day 0: three right
\* answers for word 1, a wrong answer for the word at the free limit, none
\* for the others
ResavePast(w) ==
    CASE w = 1 -> <<TRUE, TRUE, TRUE>>
      [] w = FREE_LIMIT -> <<FALSE>>
      [] OTHER -> <<>>

\* user 1 holds the free limit of words, with their review statistics
InitResave ==
    /\ InitHandlers
    /\ user_vocabulary =
          {Reviewed(r, ResavePast(r.word)) : r \in FreshRows(1, FREE_LIMIT, 1)}
              \cup OtherRows(FREE_LIMIT + 1)
    /\ next_id = 2 * FREE_LIMIT + 2
    /\ \E s \in InitSubs1 :
          subscriptions = s \cup {Sub(2, "active", MONTHLY_DAYS)}
    /\ initial = user_vocabulary

SpecResave == InitResave /\ [][Next]_vars

----------------------------------------------------------------------------
(* The due list *)

\* the review outcomes an item of the due list has had, all at day 0: none
\* (due at once), a wrong answer (due at day 1), two right answers (due at
\* day 3)
DuePasts == {<<>>, <<FALSE>>, <<TRUE, TRUE>>}

\* user 1 holds two words of book 1 and one of book 0, each with one of the
\* pasts; user 2 holds a word of book 1 that is due at once
InitDue ==
    /\ InitHandlers
    /\ \E a \in DuePasts, b \in DuePasts, c \in DuePasts :
          user_vocabulary =
            {Reviewed(NewRow(1, 1, Key(1, 1, 1, 1), "t1", 1, 0), a),
             Reviewed(NewRow(2, 1, Key(FREE_LIMIT, 1, 1, 1), "t1", 1, 0), b),
             Reviewed(NewRow(3, 1, Key(1, 0, 1, 1), "t1", 1, 0), c),
             NewRow(4, 2, Key(1, 1, 1, 1), "t1", 1, 0)}
    /\ next_id = 5
    /\ subscriptions = {}
    /\ initial = user_vocabulary

\* the book filters of a request: none, book 0, book 1
DueBooks == {Null, 0, 1}

NextDue ==
    \/ \E u \in Users, b \in DueBooks : AllIdle /\ BeginDue(1, u, b)
    \/ DueConnect(1)
    \/ DueSelect(1)
    \/ QueryFails(1)
    \/ Finish(1)
    \/ Tick

SpecDue == InitDue /\ [][NextDue]_vars

----------------------------------------------------------------------------
(* Concurrent save requests of a free user *)

\* user 1 holds no subscription, and one word less than the free limit or
\* the free limit
InitConc ==
    /\ InitHandlers
    /\ \E n \in {FREE_LIMIT - 1, FREE_LIMIT} :
          /\ user_vocabulary = FreshRows(1, n, 1) \cup OtherRows(n + 1)
          /\ next_id = n + FREE_LIMIT + 2
    /\ subscriptions = {Sub(2, "active", MONTHLY_DAYS)}
    /\ initial = user_vocabulary

\* the bodies user 1 sends at the same time: the two words at the free-tier
\* boundary, the first of them with either translation
ConcSaves ==
    {SaveReq(1, Key(FREE_LIMIT, 1, 1, 1), tr, 1) : tr \in Translations}
        \cup {SaveReq(1, Key(FREE_LIMIT + 1, 1, 1, 1), "t2", 1)}

\* the handlers serve requests at the same time, their statements
\* interleaved, all within one day
NextConc ==
    \/ \E p \in Procs, r \in ConcSaves : BeginSave(p, r)
    \/ \E p \in Procs : SaveConnect(p)
    \/ \E p \in Procs : SaveSubCheck(p)
    \/ \E p \in Procs : SaveCount(p)
    \/ \E p \in Procs : SaveExists(p)
    \/ \E p \in Procs : SaveUpsert(p)
    \/ \E p \in Procs : SaveCommit(p)
    \/ \E p \in Procs : QueryFails(p)
    \/ \E p \in Procs : Finish(p)

SpecConc == InitConc /\ [][NextConc]_vars

----------------------------------------------------------------------------
(* Concurrent review requests on one item *)

\* the id the concurrent review requests name: the item under review
ConcReviewIds == {1}

\* the handlers serve review requests at the same time, their statements
\* interleaved, all within one day
NextConcReview ==
    \/ \E p \in Procs, id \in ConcReviewIds, c \in BOOLEAN :
          BeginReview(p, id, c)
    \/ \E p \in Procs : ReviewConnect(p)
    \/ \E p \in Procs : ReviewSelect(p)
    \/ \E p \in Procs : ReviewWrite(p)
    \/ \E p \in Procs : ReviewCommit(p)
    \/ \E p \in Procs : QueryFails(p)
    \/ \E p \in Procs : Finish(p)

SpecConcReview == InitReview /\ [][NextConcReview]_vars

----------------------------------------------------------------------------
(* Properties *)

RowsOf(rows, u) == {r \in rows : r.user_id = u}

KeyOf(r) == Key(r.word, r.book_id, r.page_number, r.word_position)

RowsAt(rows, u, k) == {r \in RowsOf(rows, u) : KeyOf(r) = k}

RowsWithId(rows, id) == {r \in rows : r.id = id}

\* an unset counter reads as 0
Z(x) == IF x = Null THEN 0 ELSE x

\* handler p has answered a save request
SaveDone(p) == pc[p] = "done" /\ req[p].kind = "save"

\* the answer is the free-tier denial
Denied(p) == resp[p].status = 403 /\ resp[p].error = "FREE_LIMIT_REACHED"

\* the answer is the saved row
Saved(p) == resp[p].status = 200

\* handler p has answered a review request with the new interval
ReviewDone(p) ==
    pc[p] = "done" /\ req[p].kind = "review" /\ resp[p].status = 200

\* the outcomes and the intervals of the committed reviews of item id
ItemHistory(id) == SelectSeq(history, LAMBDA h : h.id = id)

ItemIntervals(id) ==
    [i \in 1..Len(ItemHistory(id)) |-> ItemHistory(id)[i].interval_days]

Outcomes(id, c) ==
    Cardinality({i \in 1..Len(history) :
                    history[i].id = id /\ history[i].correct = c})

\* C1: a user who holds no subscription never has more than 5 vocabulary
\* rows stored, however the statements of concurrent save requests for
\* distinct word keys interleave.
C1_FreeLimitNeverExceeded ==
    \A u \in Users :
        (\A s \in subscriptions : s.user_id # u)
            => Cardinality(RowsOf(user_vocabulary, u)) <= FREE_LIMIT

C3_ActiveNeverDenied ==
    \A p \in Procs :
        (/\ SaveDone(p)
         /\ \E s \in subscriptions :
               s.user_id = req[p].user_id /\ s.status = "active")
            => ~Denied(p)

\* an active subscriber who held 5 rows has saved a new word key
C3_Witness ==
    \E p \in Procs :
        /\ SaveDone(p)
        /\ Saved(p)
        /\ \E s \in subscriptions :
              s.user_id = req[p].user_id /\ s.status = "active"
        /\ Cardinality(RowsOf(pre[p], req[p].user_id)) >= 5
        /\ RowsAt(pre[p], req[p].user_id, req[p].key) = {}
        /\ Cardinality(RowsOf(user_vocabulary, req[p].user_id)) >= 6

\* C4: a save by a user whose subscription is cancelled but not yet expired
\* is never denied with FREE_LIMIT_REACHED: the save path treats as premium
\* whom the subscription-status path reports as premium.
C4_CancelledUnexpiredNeverDenied ==
    \A p \in Procs :
        (/\ SaveDone(p)
         /\ \E s \in subscriptions :
               /\ s.user_id = req[p].user_id
               /\ s.status = "cancelled"
               /\ s.expires_at > now
         /\ IsPremium(subscriptions, req[p].user_id, now))
            => ~Denied(p)

\* C5: the easiness_factor stored by a review is at least 1.3, for every
\* sequence of outcomes and every starting value, unset included.
C5_EasinessAtLeastMin ==
    /\ \A p \in Procs :
          ReviewDone(p) =>
              \A r \in RowsWithId(user_vocabulary, req[p].vocab_id) :
                  r.easiness_factor >= 13
    /\ \A r \in user_vocabulary :
          r.easiness_factor = Null \/ r.easiness_factor >= 13

\* a wrong answer on an item already at 1.3 has left it at 1.3
C5_Witness ==
    \E p \in Procs :
        /\ ReviewDone(p)
        /\ ~req[p].correct
        /\ \E r0 \in RowsWithId(pre[p], req[p].vocab_id) :
              r0.easiness_factor = 13
        /\ \E r \in RowsWithId(user_vocabulary, req[p].vocab_id) :
              r.easiness_factor = 13

\* C6: a wrong answer stores review_count 0 and returns interval_days 1,
\* whatever the statistics were.
C6_IncorrectResets ==
    \A p \in Procs :
        (ReviewDone(p) /\ ~req[p].correct) =>
            /\ resp[p].interval_days = 1
            /\ RowsWithId(user_vocabulary, req[p].vocab_id) # {}
            /\ \A r \in RowsWithId(user_vocabulary, req[p].vocab_id) :
                  r.review_count = 0

\* a wrong answer has broken a streak of at least 3
C6_Witness ==
    \E p \in Procs :
        /\ ReviewDone(p)
        /\ ~req[p].correct
        /\ resp[p].interval_days = 1
        /\ \E r0 \in RowsWithId(pre[p], req[p].vocab_id) :
              r0.review_count >= 3
        /\ \E r \in RowsWithId(user_vocabulary, req[p].vocab_id) :
              r.review_count = 0

\* the interval the ladder gives for the streak rc read before the review
\* and the easiness e1 stored by it, in tenths
Ladder(rc, e1) ==
    CASE rc = 0 -> 1
      [] rc = 1 -> 3
      [] rc = 2 -> 7
      [] OTHER -> (7 * Pow(e1, rc - 2)) \div Pow(10, rc - 2)

\* C7: a right answer returns the interval of the ladder 1, 3, 7,
\* floor(7 * e'^(rc - 2)), read at the review_count rc stored before the
\* review and the easiness e' stored by the review, which is the easiness
\* before it plus 0.1.
C7_IntervalFromOldCountNewEasiness ==
    \A p \in Procs :
        (ReviewDone(p) /\ req[p].correct) =>
            \A r0 \in RowsWithId(pre[p], req[p].vocab_id) :
                \E r \in RowsWithId(user_vocabulary, req[p].vocab_id) :
                    /\ r.easiness_factor =
                          (IF r0.easiness_factor = Null
                           THEN 25 ELSE r0.easiness_factor) + 1
                    /\ r.review_count = Z(r0.review_count) + 1
                    /\ resp[p].interval_days =
                          Ladder(Z(r0.review_count), r.easiness_factor)

\* a right answer at streak 4 and easiness 2.9 returns floor(7 * 3.0^2) = 63,
\* where the easiness before the review would give floor(7 * 2.9^2) = 58
C7_Witness ==
    \E p \in Procs :
        /\ ReviewDone(p)
        /\ req[p].correct
        /\ \E r0 \in RowsWithId(pre[p], req[p].vocab_id) :
              r0.review_count = 4 /\ r0.easiness_factor = 29
        /\ resp[p].interval_days = 63

\* item id started at review_count 0 and easiness 2.5 and its committed
\* reviews are four right answers
FourCorrectFromFresh(id) ==
    /\ \E r0 \in RowsWithId(initial, id) :
          /\ r0.easiness_factor \in {25, Null}
          /\ r0.review_count \in {0, Null}
    /\ Len(ItemHistory(id)) = 4
    /\ \A i \in 1..4 : ItemHistory(id)[i].correct

\* C8 as claimed: four right answers from review_count 0 and easiness 2.5
\* return the intervals 1, 3, 7, 19.
C8_LadderAsClaimed ==
    \A id \in ReviewIds :
        FourCorrectFromFresh(id) => ItemIntervals(id) = <<1, 3, 7, 19>>

\* C8 as amended: four right answers from review_count 0 and easiness 2.5
\* return the intervals 1, 3, 7, 20; the fourth is floor(7 * 2.9), with the
\* easiness 2.9 stored by the fourth review itself.
C8_Ladder ==
    \A id \in ReviewIds :
        FourCorrectFromFresh(id) => ItemIntervals(id) = <<1, 3, 7, 20>>

\* an item has had four right answers from its first review on
C8_Witness ==
    \E id \in ReviewIds :
        /\ FourCorrectFromFresh(id)
        /\ \E r \in RowsWithId(user_vocabulary, id) :
              r.review_count = 4 /\ r.easiness_factor = 29

\* C9: a right answer adds 1 to review_count and to correct_count and leaves
\* incorrect_count; a wrong answer adds 1 to incorrect_count and leaves
\* correct_count; so each counter is its initial value plus the number of
\* committed outcomes of its kind.
C9_CountersAccumulate ==
    /\ \A p \in Procs :
          ReviewDone(p) =>
              \A r0 \in RowsWithId(pre[p], req[p].vocab_id) :
                  \E r \in RowsWithId(user_vocabulary, req[p].vocab_id) :
                      IF req[p].correct
                      THEN /\ r.review_count = Z(r0.review_count) + 1
                           /\ r.correct_count = Z(r0.correct_count) + 1
                           /\ r.incorrect_count = Z(r0.incorrect_count)
                      ELSE /\ r.incorrect_count = Z(r0.incorrect_count) + 1
                           /\ r.correct_count = Z(r0.correct_count)
    /\ \A r0 \in initial :
          \E r \in RowsWithId(user_vocabulary, r0.id) :
              /\ Z(r.correct_count) =
                    Z(r0.correct_count) + Outcomes(r0.id, TRUE)
              /\ Z(r.incorrect_count) =
                    Z(r0.incorrect_count) + Outcomes(r0.id, FALSE)

\* an item with five earlier wrong answers has had right and wrong answers
C9_Witness ==
    \E p \in Procs :
        /\ ReviewDone(p)
        /\ ~req[p].correct
        /\ \E r \in RowsWithId(user_vocabulary, req[p].vocab_id) :
              /\ r.correct_count = 2
              /\ r.incorrect_count = 6
              /\ Outcomes(r.id, TRUE) = 2
              /\ Outcomes(r.id, FALSE) = 1

DueDone(p) == pc[p] = "done" /\ req[p].kind = "due" /\ resp[p].status = 200

\* the list p returned holds each of the rows S once and no other, in
\* ascending next_review_date
ListsExactly(p, S) ==
    /\ Len(resp[p].due) = Cardinality(S)
    /\ {resp[p].due[i] : i \in 1..Len(resp[p].due)} = S
    /\ \A i, j \in 1..Len(resp[p].due) :
          i < j => resp[p].due[i].next_review_date
                      <= resp[p].due[j].next_review_date

\* C12: the due list evaluated at time t holds exactly the user's rows with
\* next_review_date <= t, of the book asked for when the request names a
\* book, in ascending next_review_date.
C12_DueListExact ==
    \A p \in Procs :
        DueDone(p) =>
            ListsExactly(p,
                {r \in user_vocabulary :
                    /\ r.user_id = req[p].user_id
                    /\ r.next_review_date <= loc[p].tx_start
                    /\ req[p].key.book_id # Null
                          => r.book_id = req[p].key.book_id})

\* handler p has answered a review request whose SELECT ran and found no row
\* with the id of the request
ReviewOfNoItem(p) ==
    /\ pc[p] = "done"
    /\ req[p].kind = "review"
    /\ loc[p].tx_start # Null
    /\ RowsWithId(pre[p], req[p].vocab_id) = {}

\* C13: a review of an id that no row holds is answered 404 "Vocabulary item
\* not found"; the table is what it was when the request began, nothing was
\* scheduled (no statistics read, no interval, no next review date), nothing
\* was written and no review is recorded for the id.
C13_NotFoundChangesNothing ==
    \A p \in Procs :
        ReviewOfNoItem(p) =>
            /\ resp[p] = ErrorResp(404, "Vocabulary item not found")
            /\ user_vocabulary = pre[p]
            /\ pending[p] = {}
            /\ loc[p].vocab = NoStats
            /\ loc[p].interval_days = Null
            /\ loc[p].next_review = Null
            /\ ItemHistory(req[p].vocab_id) = <<>>

\* after a review that changed an item, a review of an id no row holds has
\* been answered 404
C13_Witness ==
    \E p \in Procs :
        /\ ReviewOfNoItem(p)
        /\ resp[p].status = 404
        /\ req[p].correct
        /\ history # <<>>
        /\ user_vocabulary # initial
        /\ user_vocabulary = pre[p]

\* the store failed handler p: no connection, or a statement raised
StoreFailed(p) ==
    resp[p].error \in {"Database connection failed", "exception"}

\* C14: a save whose connection or whose statement failed is answered 500,
\* which is neither the saved row nor the free-tier denial, and the table is
\* what it was when the request began, with nothing left to commit.  A save
\* that was answered with the saved row or the denial has read the
\* subscription count, and the vocabulary count when the user held no active
\* subscription: no failed lookup stands for a decision.
C14_FailureIsServerError ==
    \A p \in Procs :
        SaveDone(p) =>
            /\ StoreFailed(p) =>
                  /\ resp[p].status = 500
                  /\ ~Saved(p)
                  /\ ~Denied(p)
                  /\ user_vocabulary = pre[p]
                  /\ pending[p] = {}
            /\ (Saved(p) \/ Denied(p)) =>
                  /\ ~StoreFailed(p)
                  /\ loc[p].tx_start # Null
                  /\ loc[p].has_subscription
                        = HasSubscription(subscriptions, req[p].user_id)
                  /\ ~loc[p].has_subscription =>
                        loc[p].vocab_count
                            = VocabCount(pre[p], req[p].user_id)

\* the first save of a behaviour failed after its INSERT had drawn an id: the
\* id is used up and no row holds it
C14_Witness ==
    \E p \in Procs :
        /\ SaveDone(p)
        /\ resp[p] = ErrorResp(500, "exception")
        /\ saves = 1
        /\ RowsAt(pre[p], req[p].user_id, req[p].key) = {}
        /\ \A r \in user_vocabulary : r.id < next_id - 1
        /\ user_vocabulary = pre[p]

\* the body of p's request lacks the user, the word or the translation
MissingField(p) ==
    req[p].user_id = Null \/ req[p].key.word = Null \/ req[p].translation = ""

\* C15: a save whose body lacks the user, the word or the translation is
\* answered 400 "Missing required fields" with no statement run: the handler
\* holds no result of the subscription, count or existence query, no
\* transaction was opened, nothing waits to be committed, and the table and
\* the id sequence are what they were.  No other save is answered 400.
C15_MissingFieldRejectedFirst ==
    /\ \A p \in Procs :
          (SaveDone(p) /\ MissingField(p)) =>
              /\ resp[p] = ErrorResp(400, "Missing required fields")
              /\ loc[p] = NoLoc
              /\ pending[p] = {}
              /\ user_vocabulary = pre[p]
              /\ \A r \in user_vocabulary : r.user_id # Null /\ r.word # Null
    /\ \A p \in Procs :
          (SaveDone(p) /\ resp[p].status = 400) => MissingField(p)
    /\ \A p \in Procs :
          (req[p].kind = "save" /\ MissingField(p)) => pc[p] = "done"

\* after a save that stored a row, a body with no translation has been
\* answered 400
C15_Witness ==
    \E p \in Procs :
        /\ SaveDone(p)
        /\ req[p].translation = ""
        /\ resp[p].status = 400
        /\ saves = 2
        /\ user_vocabulary # initial
        /\ user_vocabulary = pre[p]

\* handler p has saved at a key the user held when the request began
Resaved(p) ==
    /\ SaveDone(p)
    /\ Saved(p)
    /\ RowsAt(pre[p], req[p].user_id, req[p].key) # {}

C17_DenialChangesNothing ==
    \A p \in Procs :
        (SaveDone(p) /\ Denied(p)) =>
            /\ RowsOf(user_vocabulary, req[p].user_id)
                  = RowsOf(pre[p], req[p].user_id)
            /\ user_vocabulary = pre[p]
            /\ pending[p] = {}
            /\ resp[p].vocab_count = loc[p].vocab_count
            /\ resp[p].vocab_count
                  = Cardinality(RowsOf(pre[p], req[p].user_id))
            /\ resp[p].vocab_count >= FREE_LIMIT

\* a user who held 4 words has saved a fifth and has then been denied a
\* sixth, with vocab_count 5
C17_Witness ==
    \E p \in Procs :
        /\ SaveDone(p)
        /\ Denied(p)
        /\ resp[p].vocab_count = 5
        /\ saves = 2
        /\ Cardinality(RowsOf(initial, req[p].user_id)) = 4
        /\ RowsAt(user_vocabulary, req[p].user_id, req[p].key) = {}
        /\ Cardinality(RowsOf(user_vocabulary, req[p].user_id)) = 5

\* no review request is in flight
NoReviewInFlight == \A p \in Procs : pc[p] \in {"idle", "done"}

\* C18: when every review request has completed, correct_count +
\* incorrect_count of each item is its initial value plus the number of
\* reviews of the item that were committed, however the SELECT and the UPDATE
\* of concurrent requests on the item interleave.
C18_NoLostUpdate ==
    NoReviewInFlight =>
        \A r0 \in initial :
            \E r \in RowsWithId(user_vocabulary, r0.id) :
                Z(r.correct_count) + Z(r.incorrect_count)
                    = Z(r0.correct_count) + Z(r0.incorrect_count)
                        + Len(ItemHistory(r0.id))

====
